---- MODULE Spec2Model ----
(***************************************************************************)
(* chi/context.py: the authentication context of the chi client.           *)
(*                                                                         *)
(* Python strings are modelled as sequences of tokens (pieces of the       *)
(* string), so that the string computations of the module                  *)
(* (replace("-", "_"), upper(), startswith('v3'), the f-strings that build *)
(* section and environment-variable names) are computed, not tabulated.    *)
(* 'key-name' is <<"key", "-", "name">>, '' is << >>.                      *)
(*                                                                         *)
(* The configuration store (oslo.config's cfg.CONF) and the option loader  *)
(* (keystoneauth1.loading) are libraries outside the repository; they are  *)
(* modelled by the contract context.py relies on: per (group, dest) an     *)
(* override layer above a default layer above the option's built-in        *)
(* default, NoSuchOptError on a lookup of an unregistered option.  Values  *)
(* are strings already of the option's type, which the store keeps as they *)
(* are.                                                                    *)
(***************************************************************************)
EXTENDS Integers, Sequences, FiniteSets, TLC

VARIABLES
    environ,        \* os.environ: a function from the variables that are set
    CONF,           \* cfg.CONF: [opts, override, default]
    _auth_plugin,   \* module global, line 31
    _session,       \* module global, line 32: 0 is None, n > 0 the n-th object built
    nbuilt,         \* number of session objects built so far (object identities)
    op,             \* the call that has just returned or raised
    returned,       \* the object session() last returned, 0 when it has returned none
    since,          \* what has been called since session() last returned an object
    changed,        \* whether an option value or the plugin has changed since then
    builtFrom,      \* the auth-affecting configuration the cached session was built from
    self_auth,      \* the auth object of a SessionWithAccessTokenRefresh, NoAuth when it has none
    caller_auth,    \* the auth object a caller passes to request(auth=...)
    request_op      \* the request() call that has just returned or raised

\* the state of the request path of lines 35-49
hookvars == <<self_auth, caller_auth, request_op>>

vars == <<environ, CONF, _auth_plugin, _session, nbuilt, op, returned, since, changed,
          builtFrom, self_auth, caller_auth, request_op>>

----------------------------------------------------------------------------
(* Bounds of the model.                                                    *)

\* session objects built in one run
MaxBuilds == 2
\* environment variables set in one environment of SpecEnv
MaxEnvVars == 2

----------------------------------------------------------------------------
(* Python values.                                                          *)

None == <<"<None>">>
NoSuchOptError == <<"<NoSuchOptError>">>

\* truthiness of a str-or-None value: `if v:`
Truthy(v) == v # None /\ v # << >>

\* s.replace(a, b) on a token string whose separators are single tokens
Replace(s, a, b) == [i \in 1..Len(s) |-> IF s[i] = a THEN b ELSE s[i]]

UpperToken ==
    [t \in {"auth", "url", "type", "method", "token", "username", "user", "name",
            "region", "cafile", "key", "image", "keypair", "private", "public",
            "default", "domain", "id", "_", "-"} |->
        CASE t = "auth" -> "AUTH" [] t = "url" -> "URL" [] t = "type" -> "TYPE"
          [] t = "method" -> "METHOD" [] t = "token" -> "TOKEN"
          [] t = "username" -> "USERNAME" [] t = "user" -> "USER"
          [] t = "name" -> "NAME" [] t = "region" -> "REGION"
          [] t = "cafile" -> "CAFILE" [] t = "key" -> "KEY" [] t = "image" -> "IMAGE"
          [] t = "keypair" -> "KEYPAIR" [] t = "private" -> "PRIVATE"
          [] t = "public" -> "PUBLIC" [] t = "default" -> "DEFAULT"
          [] t = "domain" -> "DOMAIN" [] t = "id" -> "ID"
          [] OTHER -> t]

\* s.upper()
Upper(s) == [i \in 1..Len(s) |-> UpperToken[s[i]]]

\* name.startswith(prefix), prefix a single token
StartsWith(s, prefix) == Len(s) >= 1 /\ s[1] = prefix

----------------------------------------------------------------------------
(* Options.                                                                *)

\* an option declared by name: its dest is the name with "-" replaced by "_"
Opt(name, deprecated, required) ==
    [name |-> name, dest |-> Replace(name, "-", "_"),
     deprecated |-> deprecated, required |-> required]

DEFAULT_AUTH_TYPE == <<"v3", "token">>
CONF_GROUP == <<"chi">>

_AUTH_SECTION_OPT == Opt(<<"auth", "_", "section">>, << >>, FALSE)
_AUTH_TYPE_OPT == Opt(<<"auth", "_", "type">>, << >>, FALSE)

\* loading.get_session_conf_options(): one of its string options
session_opts == << Opt(<<"cafile">>, << >>, FALSE) >>
\* loading.get_adapter_conf_options(): one of its string options
adapter_opts == << Opt(<<"region", "-", "name">>, << >>, FALSE) >>
extra_opts ==
    << Opt(<<"key", "-", "name">>, << >>, FALSE),
       Opt(<<"image">>, << >>, FALSE),
       Opt(<<"keypair", "-", "private", "-", "key">>, << >>, FALSE),
       Opt(<<"keypair", "-", "public", "-", "key">>, << >>, FALSE) >>
global_options == session_opts \o adapter_opts \o extra_opts

\* loading.get_available_plugin_loaders(): plugin name -> loader.get_options().
\* Two v3 plugins and the version-independent 'password' plugin.
PluginLoaders ==
    [n \in {<<"v3", "token">>, <<"v3", "password">>, <<"password">>} |->
        CASE n = <<"v3", "token">> ->
               << Opt(<<"auth", "-", "url">>, << >>, TRUE),
                  Opt(<<"token">>, << >>, FALSE) >>
          [] n = <<"v3", "password">> ->
               << Opt(<<"auth", "-", "url">>, << >>, TRUE),
                  Opt(<<"username">>, << [name |-> <<"user", "-", "name">>] >>, FALSE) >>
          [] OTHER ->
               << Opt(<<"auth", "-", "url">>, << >>, TRUE),
                  Opt(<<"default", "-", "domain", "-", "id">>, << >>, FALSE) >>]

\* the order in which the loaders are listed
LoaderOrder == << <<"v3", "token">>, <<"v3", "password">>, <<"password">> >>

_auth_plugins ==
    SelectSeq([i \in 1..Len(LoaderOrder) |->
                  [name |-> LoaderOrder[i], opts |-> PluginLoaders[LoaderOrder[i]]]],
              LAMBDA p : StartsWith(p.name, "v3"))

_auth_section(auth_plugin) == CONF_GROUP \o <<".", "auth", ".">> \o auth_plugin

Dests(opts) == {opts[i].dest : i \in 1..Len(opts)}

----------------------------------------------------------------------------
(* cfg.CONF as context.py uses it.                                         *)

EmptyMap == [x \in {} |-> None]

\* cfg.CONF.register_opt(opt, group=group); idempotent
register_opt(C, opt, group) == [C EXCEPT !.opts = @ \cup {<<group, opt.dest>>}]

RECURSIVE register_opts(_, _, _)
register_opts(C, opts, group) ==
    IF opts = << >> THEN C
    ELSE register_opts(register_opt(C, Head(opts), group), Tail(opts), group)

\* cfg.CONF.set_override(name, value, group=group), name registered in group
set_override(C, name, value, group) ==
    [C EXCEPT !.override = (<<group, name>> :> value) @@ @]

\* cfg.CONF.set_default(name, value, group=group), name registered in group
set_default(C, name, value, group) ==
    [C EXCEPT !.default = (<<group, name>> :> value) @@ @]

\* the overrides survive the reset
conf_reset_KeepOverrides(C) == [C EXCEPT !.default = EmptyMap]

\* cfg.CONF.reset(): overrides and defaults are dropped, registrations stay
conf_reset(C) == [C EXCEPT !.override = EmptyMap, !.default = EmptyMap]

\* cfg.CONF[group][key]
conf_get(C, group, key) ==
    LET k == <<group, key>> IN
    IF k \notin C.opts THEN NoSuchOptError
    ELSE IF k \in DOMAIN C.override THEN C.override[k]
    ELSE IF k \in DOMAIN C.default THEN C.default[k]
    ELSE None

\* loading.register_auth_conf_options(conf, group): auth_section in the group,
\* auth_type in the section auth_section points at (the group itself if unset)
register_auth_conf_options(C, group) ==
    LET C1 == register_opt(C, _AUTH_SECTION_OPT, group)
        sect == conf_get(C1, group, _AUTH_SECTION_OPT.dest)
    IN  register_opt(C1, _AUTH_TYPE_OPT, IF Truthy(sect) THEN sect ELSE group)

----------------------------------------------------------------------------
(* The environment.                                                        *)

\* os.environ.get(name): None when the variable is not set
environ_get(env, name) == IF name \in DOMAIN env THEN env[name] ELSE None

\* os.getenv(name, default)
getenv(env, name, default) == IF name \in DOMAIN env THEN env[name] ELSE default

\* f'OS_{o.name.replace("-", "_").upper()}'
EnvName(name) == <<"OS", "_">> \o Upper(Replace(name, "-", "_"))

\* _default(opt) of _default_from_env: the first non-empty variable among the
\* option's own and its deprecated names', None when there is none
RECURSIVE FirstEnv(_, _)
FirstEnv(env, all_opts) ==
    IF all_opts = << >> THEN None
    ELSE LET v == environ_get(env, EnvName(Head(all_opts).name))
         IN  IF Truthy(v) THEN v ELSE FirstEnv(env, Tail(all_opts))

\* the deprecated names are not looked up
_default_OwnNameOnly(env, opt) == FirstEnv(env, <<opt>>)

_default(env, opt) == FirstEnv(env, <<opt>> \o opt.deprecated)

RECURSIVE _default_from_env(_, _, _, _)
_default_from_env(C, env, opts, group) ==
    IF opts = << >> THEN C
    ELSE LET g == IF Truthy(group) THEN group ELSE CONF_GROUP
             opt == Head(opts)
             default == _default(env, opt)
             C1 == IF Truthy(default) THEN set_default(C, opt.dest, default, g)
                   ELSE C
         IN  _default_from_env(C1, env, Tail(opts), g)

----------------------------------------------------------------------------
(* The functions of context.py, as functions of the state they read.       *)

\* the name is not recorded in the global
_set_auth_plugin_NotRecorded(C, auth_plugin) ==
    LET auth_section == _auth_section(auth_plugin)
        C1 == set_override(C, _AUTH_SECTION_OPT.dest, auth_section, CONF_GROUP)
        C2 == register_auth_conf_options(C1, CONF_GROUP)
        C3 == set_override(C2, _AUTH_TYPE_OPT.dest, auth_plugin, auth_section)
    IN  [conf |-> C3, plugin |-> DEFAULT_AUTH_TYPE]

\* the auth type is written to the root section
_set_auth_plugin_RootAuthType(C, auth_plugin) ==
    LET auth_section == _auth_section(auth_plugin)
        C1 == set_override(C, _AUTH_SECTION_OPT.dest, auth_section, CONF_GROUP)
        C2 == register_auth_conf_options(C1, CONF_GROUP)
        C3 == set_override(C2, _AUTH_TYPE_OPT.dest, auth_plugin, CONF_GROUP)
    IN  [conf |-> C3, plugin |-> auth_plugin]

\* the overrides made so far are dropped when the plugin is selected
_set_auth_plugin_DropsOverrides(C, auth_plugin) ==
    LET auth_section == _auth_section(auth_plugin)
        C1 == set_override([C EXCEPT !.override = EmptyMap],
                           _AUTH_SECTION_OPT.dest, auth_section, CONF_GROUP)
        C2 == register_auth_conf_options(C1, CONF_GROUP)
        C3 == set_override(C2, _AUTH_TYPE_OPT.dest, auth_plugin, auth_section)
    IN  [conf |-> C3, plugin |-> auth_plugin]

\* _set_auth_plugin(auth_plugin): the store and the global it leaves
_set_auth_plugin(C, auth_plugin) ==
    LET auth_section == _auth_section(auth_plugin)
        C1 == set_override(C, _AUTH_SECTION_OPT.dest, auth_section, CONF_GROUP)
        C2 == register_auth_conf_options(C1, CONF_GROUP)
        C3 == set_override(C2, _AUTH_TYPE_OPT.dest, auth_plugin, auth_section)
    IN  [conf |-> C3, plugin |-> auth_plugin]

\* every option of the plugin is taken to match
matches_Any(opts, key) == opts

\* line 119: the options of one plugin that key names, by name or by dest
matches(opts, key) == SelectSeq(opts, LAMBDA o : key \in {o.name, o.dest})

RECURSIVE OverrideAll(_, _, _, _)
OverrideAll(C, ms, value, group) ==
    IF ms = << >> THEN C
    ELSE OverrideAll(set_override(C, Head(ms).dest, value, group), Tail(ms), value, group)

\* the loop stops at the first plugin that defines the key
RECURSIVE SetForPlugins_FirstMatch(_, _, _, _, _)
SetForPlugins_FirstMatch(C, plugins, key, value, valid) ==
    IF plugins = << >> \/ valid THEN [conf |-> C, valid |-> valid]
    ELSE LET p == Head(plugins)
             ms == matches(p.opts, key)
         IN  SetForPlugins_FirstMatch(OverrideAll(C, ms, value, _auth_section(p.name)),
                                      Tail(plugins), key, value, valid \/ Len(ms) > 0)

\* lines 116-122: the loop over the plugins; valid is valid_for_some_plugin
RECURSIVE SetForPlugins(_, _, _, _, _)
SetForPlugins(C, plugins, key, value, valid) ==
    IF plugins = << >> THEN [conf |-> C, valid |-> valid]
    ELSE LET p == Head(plugins)
             ms == matches(p.opts, key)
         IN  SetForPlugins(OverrideAll(C, ms, value, _auth_section(p.name)),
                           Tail(plugins), key, value, valid \/ Len(ms) > 0)

\* every set drops the cached session
AffectsSession_Always(key) == TRUE

\* no set drops the cached session
AffectsSession_Never(key) == FALSE

\* only a change of plugin drops the cached session
AffectsSession_OnlyAuthType(key) == key = _AUTH_TYPE_OPT.dest

\* line 126: whether set(key, ...) drops the cached session
AffectsSession(key) == key \notin Dests(extra_opts)

\* the cached session is dropped before the key is looked up
SetResult_InvalidatesFirst(C, plugin, sess, key, value) ==
    LET after(s) == IF AffectsSession(key) THEN 0 ELSE s IN
    IF key = _AUTH_TYPE_OPT.dest THEN
        LET r == _set_auth_plugin(C, value)
        IN  [conf |-> r.conf, plugin |-> r.plugin, session |-> after(sess),
             raised |-> FALSE]
    ELSE IF key \in Dests(global_options) THEN
        [conf |-> set_override(C, key, value, CONF_GROUP), plugin |-> plugin,
         session |-> after(sess), raised |-> FALSE]
    ELSE
        LET r == SetForPlugins(C, _auth_plugins, key, value, FALSE)
        IN  [conf |-> r.conf, plugin |-> plugin, session |-> after(sess),
             raised |-> ~r.valid]

\* set(key, value): the state it leaves, raised when it ends in NoSuchOptError
SetResult(C, plugin, sess, key, value) ==
    LET after(s) == IF AffectsSession(key) THEN 0 ELSE s IN
    IF key = _AUTH_TYPE_OPT.dest THEN
        LET r == _set_auth_plugin(C, value)
        IN  [conf |-> r.conf, plugin |-> r.plugin, session |-> after(sess),
             raised |-> FALSE]
    ELSE IF key \in Dests(global_options) THEN
        [conf |-> set_override(C, key, value, CONF_GROUP), plugin |-> plugin,
         session |-> after(sess), raised |-> FALSE]
    ELSE
        LET r == SetForPlugins(C, _auth_plugins, key, value, FALSE)
        IN  IF ~r.valid
            THEN [conf |-> r.conf, plugin |-> plugin, session |-> sess, raised |-> TRUE]
            ELSE [conf |-> r.conf, plugin |-> plugin, session |-> after(sess),
                  raised |-> FALSE]

\* get reads the root section whatever the key
GetResult_RootOnly(C, plugin, key) == conf_get(C, CONF_GROUP, key)

\* get reads the section of the default plugin, not of the active one
GetResult_DefaultSection(C, plugin, key) ==
    IF key \in Dests(global_options)
    THEN conf_get(C, CONF_GROUP, key)
    ELSE conf_get(C, _auth_section(DEFAULT_AUTH_TYPE), key)

\* get(key): the value, or NoSuchOptError when the lookup raises it
GetResult(C, plugin, key) ==
    IF key \in Dests(global_options)
    THEN conf_get(C, CONF_GROUP, key)
    ELSE conf_get(C, _auth_section(plugin), key)

RECURSIVE DefaultPlugins(_, _, _)
DefaultPlugins(C, env, plugins) ==
    IF plugins = << >> THEN C
    ELSE DefaultPlugins(
             _default_from_env(C, env, Head(plugins).opts, _auth_section(Head(plugins).name)),
             env, Tail(plugins))

OS_AUTH_TYPE == <<"OS", "_", "AUTH", "_", "TYPE">>
OS_AUTH_METHOD == <<"OS", "_", "AUTH", "_", "METHOD">>

\* the legacy variable is preferred
ResetPlugin_MethodFirst(env) ==
    getenv(env, OS_AUTH_METHOD, getenv(env, OS_AUTH_TYPE, DEFAULT_AUTH_TYPE))

\* lines 174-176: the plugin reset() selects
ResetPlugin(env) == getenv(env, OS_AUTH_TYPE, getenv(env, OS_AUTH_METHOD, DEFAULT_AUTH_TYPE))

\* reset(): the store and the plugin it leaves
ResetResult(C, env) ==
    LET r == _set_auth_plugin(conf_reset(C), ResetPlugin(env))
        C1 == _default_from_env(r.conf, env, global_options, CONF_GROUP)
    IN  [conf |-> DefaultPlugins(C1, env, _auth_plugins), plugin |-> r.plugin]

\* lines 182-191: the registrations of module initialization
RECURSIVE RegisterPlugins(_, _)
RegisterPlugins(C, plugins) ==
    IF plugins = << >> THEN C
    ELSE RegisterPlugins(
             register_opts(C, Head(plugins).opts, _auth_section(Head(plugins).name)),
             Tail(plugins))

ImportConf ==
    LET C0 == [opts |-> {}, override |-> EmptyMap, default |-> EmptyMap]
        C1 == register_auth_conf_options(C0, CONF_GROUP)
        C2 == register_opts(C1, session_opts, CONF_GROUP)
        C3 == register_opts(C2, adapter_opts, CONF_GROUP)
        C4 == register_opts(C3, extra_opts, CONF_GROUP)
    IN  RegisterPlugins(C4, _auth_plugins)

\* loading.load_auth_from_conf_options(cfg.CONF, CONF_GROUP), line 156: the
\* section and plugin it reads, the store it leaves (it registers the plugin's
\* options in the section), and whether it must raise
LoadAuth(C) ==
    LET sect == conf_get(C, CONF_GROUP, _AUTH_SECTION_OPT.dest)
        group == IF Truthy(sect) THEN sect ELSE CONF_GROUP
        name == conf_get(C, group, _AUTH_TYPE_OPT.dest)
    IN  IF ~Truthy(name) THEN [conf |-> C, fails |-> FALSE]
        ELSE IF name \notin DOMAIN PluginLoaders THEN [conf |-> C, fails |-> TRUE]
        ELSE LET opts == PluginLoaders[name]
                 C1 == register_opts(C, opts, group)
             IN  [conf |-> C1,
                  fails |-> \E i \in 1..Len(opts) :
                               opts[i].required /\ conf_get(C1, group, opts[i].dest) = None]

\* session() never returns the cached object
CacheHit_Never(sess) == FALSE

\* line 155: whether session() returns the cached object
CacheHit(sess) == sess # 0

\* what a session is built from: the plugin, the section pointer, and every
\* option value but those of the extra options
AuthConfig(C, plugin) ==
    [plugin |-> plugin,
     section |-> conf_get(C, CONF_GROUP, _AUTH_SECTION_OPT.dest),
     values |-> [k \in {k \in C.opts : ~(k[1] = CONF_GROUP /\ k[2] \in Dests(extra_opts))}
                    |-> conf_get(C, k[1], k[2])]]

----------------------------------------------------------------------------
(* SessionWithAccessTokenRefresh.request, lines 35-49.                     *)

\* an auth plugin object: whether it is an OidcAccessToken, its access_token
\* attribute, and what get_auth_state() returns (None until it authenticates)
AuthObject(oidc, access_token, auth_state) ==
    [oidc |-> oidc, access_token |-> access_token, auth_state |-> auth_state]

\* None where an auth object may stand (auth=None, a session without auth)
NoAuth == [none |-> TRUE]

\* jupyterhub.is_jupyterhub_env(): whether the process runs in the notebook
\* environment
is_jupyterhub_env == BOOLEAN

\* jupyterhub.refresh_access_token(): a fresh token, an empty one, none, or an
\* error
refresh_access_token ==
    { [raises |-> FALSE, token |-> <<"fresh">>],
      [raises |-> FALSE, token |-> << >>],
      [raises |-> FALSE, token |-> None],
      [raises |-> TRUE, token |-> None] }

\* line 49, super().request(...): a response or an error, and the auth state
\* the request leaves in the auth object it used
SuperRequest ==
    { [outcome |-> o, auth_state |-> s] :
        o \in {"response", "error"}, s \in {None, <<"authenticated">>} }

\* line 37: auth or self.auth
RequestAuth(auth, selfauth) == IF auth # NoAuth THEN auth ELSE selfauth

\* the auth state is not looked at
RefreshNeeded_IgnoresAuthState(request_auth, in_hub) == request_auth.oidc /\ in_hub

\* lines 38-41: whether the token is refreshed before the request
RefreshNeeded(request_auth, in_hub) ==
    request_auth.oidc /\ request_auth.auth_state = None /\ in_hub

\* whatever the refresh returns is installed
Installed_Unchecked(request_auth, r) == [request_auth EXCEPT !.access_token = r.token]

\* lines 44-46: the auth object after a refresh that returned r.token
Installed(request_auth, r) ==
    IF Truthy(r.token) THEN [request_auth EXCEPT !.access_token = r.token]
    ELSE request_auth

\* the error of the refresh is not caught
Caught_Nothing(r) == FALSE

\* lines 42, 47-48: whether the try block catches the outcome of the refresh
Caught(r) == r.raises

----------------------------------------------------------------------------
(* Inputs of the calls.                                                    *)

RegionOne == <<"RegionOne">>

\* keys passed to set and get: the reserved key, root options by dest and by
\* name, plugin options by dest, by name and by deprecated name, a root
\* option that is not in global_options, an option of a plugin that is not v3
Keys ==
    { <<"auth", "_", "type">>,
      <<"region", "_", "name">>, <<"region", "-", "name">>,
      <<"image">>,
      <<"auth", "_", "url">>, <<"auth", "-", "url">>,
      <<"username">>, <<"user", "-", "name">>,
      <<"auth", "_", "section">>,
      <<"default", "_", "domain", "_", "id">> }

\* values passed to set for an option
Values == { <<"alice">> }

\* values passed to set for auth_type: the v3 plugins and a name no loader has
PluginInputs == { <<"v3", "token">>, <<"v3", "password">>, <<"bogus">> }

\* the environment variables the model sets, each with the values it may hold
EnvChoices ==
    (OS_AUTH_TYPE :> { << >>, <<"v3", "password">>, <<"bogus">> })
 @@ (OS_AUTH_METHOD :> { << >>, <<"v3", "password">> })
 @@ (EnvName(<<"region", "-", "name">>) :> { << >>, RegionOne })
 @@ (EnvName(<<"image">>) :> { << >>, <<"cc-ubuntu">> })
 @@ (EnvName(<<"auth", "-", "url">>) :> { << >>, <<"https://kvm">> })
 @@ (EnvName(<<"username">>) :> { << >>, <<"carol">> })
 @@ (EnvName(<<"user", "-", "name">>) :> { << >>, <<"dave">> })

\* the environments with at most n variables set
EnvironmentsUpTo(n) ==
    UNION { { e \in [D -> UNION {EnvChoices[x] : x \in D}] :
                \A x \in D : e[x] \in EnvChoices[x] } :
            D \in { D \in SUBSET DOMAIN EnvChoices : Cardinality(D) <= n } }

\* the environments of Spec: nothing set, and the one of the spec's scenarios
ScenarioEnvs ==
    { EmptyMap,
      (EnvName(<<"region", "-", "name">>) :> RegionOne)
        @@ (EnvName(<<"auth", "-", "url">>) :> <<"https://kvm">>) }

----------------------------------------------------------------------------
(* The calls.                                                              *)

\* op: the call, how it ended, and what it found when it was made:
\*   raised  "" or the error the call ended in
\*   ret     the value get returned;  obj  the object session() returned
\*   built   session() ran the build
\*   was, prev, cached   since, returned and _session before the call
\*   changed, plugin   changed and _auth_plugin before the call
\*   overridden   whether some root option had an override before the call
NoCall ==
    [name |-> "import", key |-> << >>, value |-> None, raised |-> "", ret |-> None,
     obj |-> 0, built |-> FALSE, was |-> "none", prev |-> 0, cached |-> 0,
     plugin |-> None, changed |-> FALSE, overridden |-> FALSE]

\* the keys of the four extra options, and of all the root options modelled
ExtraKeys ==
    { <<"key", "_", "name">>, <<"image">>,
      <<"keypair", "_", "private", "_", "key">>, <<"keypair", "_", "public", "_", "key">> }

RootKeys == ExtraKeys \cup { <<"cafile">>, <<"region", "_", "name">> }

\* the keys of the options a v3 plugin defines; no other plugin has a section
\* with options
PluginKeys(p) ==
    CASE p = <<"v3", "token">> -> { <<"auth", "_", "url">>, <<"token">> }
      [] p = <<"v3", "password">> -> { <<"auth", "_", "url">>, <<"username">> }
      [] OTHER -> {}

\* every option value get can read in some state, and the active plugin
Observable(C, plugin) ==
    [plugin |-> plugin, values |-> [k \in C.opts |-> conf_get(C, k[1], k[2])]]

\* since after a call: "none" until session() first returns an object; then
\* "quiet" (no set or reset since it last did), "extra" (only successful sets of
\* extra options), "kept" (also sets that raised), "auth" (a set of another key
\* succeeded), "reset" (a reset, and no such set)
Noted(kind) ==
    IF returned = 0 THEN "none"
    ELSE IF kind = "auth" \/ since = "auth" THEN "auth"
    ELSE IF kind = "reset" \/ since = "reset" THEN "reset"
    ELSE IF kind = "kept" \/ since = "kept" THEN "kept"
    ELSE "extra"

\* changed after a call that leaves the store C and the plugin p
Changed(C, p) ==
    returned # 0 /\ (changed \/ Observable(C, p) # Observable(CONF, _auth_plugin))

set(key, value) ==
    LET r == SetResult(CONF, _auth_plugin, _session, key, value) IN
    /\ CONF' = r.conf
    /\ _auth_plugin' = r.plugin
    /\ _session' = r.session
    /\ op' = [NoCall EXCEPT !.name = "set", !.key = key, !.value = value,
                            !.raised = IF r.raised THEN "NoSuchOptError" ELSE "",
                            !.cached = _session]
    /\ since' = Noted(IF r.raised THEN "kept"
                      ELSE IF key \in ExtraKeys THEN "extra" ELSE "auth")
    /\ changed' = Changed(r.conf, r.plugin)
    /\ builtFrom' = IF r.session = 0 THEN {} ELSE builtFrom
    /\ UNCHANGED <<environ, nbuilt, returned, hookvars>>

get(key) ==
    LET v == GetResult(CONF, _auth_plugin, key) IN
    /\ op' = [NoCall EXCEPT !.name = "get", !.key = key,
                            !.raised = IF v = NoSuchOptError THEN "NoSuchOptError" ELSE "",
                            !.ret = IF v = NoSuchOptError THEN None ELSE v]
    /\ UNCHANGED <<environ, CONF, _auth_plugin, _session, nbuilt, returned, since,
                   changed, builtFrom, hookvars>>

\* the object is cached before the build has succeeded
session_CachesFailedBuild ==
    LET call == [NoCall EXCEPT !.name = "session", !.was = since, !.prev = returned,
                               !.cached = _session, !.changed = changed]
    IN
    IF CacheHit(_session)
    THEN /\ op' = [call EXCEPT !.obj = _session]
         /\ returned' = _session
         /\ since' = "quiet"
         /\ changed' = FALSE
         /\ UNCHANGED <<environ, CONF, _auth_plugin, _session, nbuilt, builtFrom, hookvars>>
    ELSE LET a == LoadAuth(CONF) IN
            /\ nbuilt < MaxBuilds
            /\ CONF' = a.conf
            /\ _session' = nbuilt + 1
            /\ nbuilt' = nbuilt + 1
            /\ builtFrom' = {AuthConfig(a.conf, _auth_plugin)}
            /\ IF a.fails
               THEN /\ op' = [call EXCEPT !.raised = "BuildError", !.built = TRUE]
                    /\ changed' = Changed(a.conf, _auth_plugin)
                    /\ UNCHANGED <<returned, since>>
               ELSE /\ op' = [call EXCEPT !.obj = nbuilt + 1, !.built = TRUE]
                    /\ returned' = nbuilt + 1
                    /\ since' = "quiet"
                    /\ changed' = FALSE
            /\ UNCHANGED <<environ, _auth_plugin, hookvars>>

\* session(): the cached object, or a build, which raises when the auth plugin
\* cannot be loaded
session ==
    LET call == [NoCall EXCEPT !.name = "session", !.was = since, !.prev = returned,
                               !.cached = _session, !.changed = changed]
    IN
    IF CacheHit(_session)
    THEN /\ op' = [call EXCEPT !.obj = _session]
         /\ returned' = _session
         /\ since' = "quiet"
         /\ changed' = FALSE
         /\ UNCHANGED <<environ, CONF, _auth_plugin, _session, nbuilt, builtFrom, hookvars>>
    ELSE LET a == LoadAuth(CONF) IN
            /\ ~a.fails => nbuilt < MaxBuilds
            /\ CONF' = a.conf
            /\ IF a.fails
               THEN /\ op' = [call EXCEPT !.raised = "BuildError", !.built = TRUE]
                    /\ changed' = Changed(a.conf, _auth_plugin)
                    /\ UNCHANGED <<_session, nbuilt, returned, since, builtFrom>>
               ELSE /\ _session' = nbuilt + 1
                    /\ nbuilt' = nbuilt + 1
                    /\ op' = [call EXCEPT !.obj = nbuilt + 1, !.built = TRUE]
                    /\ returned' = nbuilt + 1
                    /\ since' = "quiet"
                    /\ changed' = FALSE
                    /\ builtFrom' = {AuthConfig(a.conf, _auth_plugin)}
            /\ UNCHANGED <<environ, _auth_plugin, hookvars>>

reset ==
    LET r == ResetResult(CONF, environ) IN
    /\ _session' = 0
    /\ CONF' = r.conf
    /\ _auth_plugin' = r.plugin
    /\ op' = [NoCall EXCEPT !.name = "reset", !.plugin = _auth_plugin,
                            !.overridden = \E k \in DOMAIN CONF.override :
                                               k[1] = CONF_GROUP /\ k[2] \in RootKeys]
    /\ since' = Noted("reset")
    /\ changed' = Changed(r.conf, r.plugin)
    /\ builtFrom' = {}
    /\ UNCHANGED <<environ, nbuilt, returned, hookvars>>

\* no request() call yet
NoRequest ==
    [name |-> "none", given |-> FALSE, in_hub |-> FALSE, refresh |-> "none",
     attempted |-> FALSE, before |-> NoAuth, logged |-> FALSE, issued |-> 0,
     underlying |-> "none", outcome |-> "none"]

\* request(url, method, auth): given tells whether the caller passes its auth
\* object; in_hub, r and u are what is_jupyterhub_env(), refresh_access_token()
\* and super().request() do when they are called
request(given, in_hub, r, u) ==
    LET auth == IF given THEN caller_auth ELSE NoAuth
        request_auth == RequestAuth(auth, self_auth)
        call == [NoRequest EXCEPT !.name = "request", !.given = given, !.in_hub = in_hub,
                                  !.before = request_auth]
    IN
    /\ IF request_auth = NoAuth
       THEN \* line 38: None has no get_auth_state
            /\ request_op' = [call EXCEPT !.outcome = "AttributeError"]
            /\ UNCHANGED <<self_auth, caller_auth>>
       ELSE LET needed == RefreshNeeded(request_auth, in_hub)
                aborted == needed /\ r.raises /\ ~Caught(r)
                a1 == IF needed /\ ~r.raises THEN Installed(request_auth, r)
                      ELSE request_auth
                a2 == IF aborted THEN a1 ELSE [a1 EXCEPT !.auth_state = u.auth_state]
            IN  /\ request_op' =
                      [call EXCEPT !.attempted = needed,
                                   !.refresh = IF ~needed THEN "none"
                                               ELSE IF r.raises THEN "raised"
                                               ELSE IF r.token = None THEN "None"
                                               ELSE IF r.token = << >> THEN "empty"
                                               ELSE "token",
                                   !.logged = needed /\ r.raises /\ Caught(r),
                                   !.issued = IF aborted THEN 0 ELSE 1,
                                   !.underlying = IF aborted THEN "none" ELSE u.outcome,
                                   !.outcome = IF aborted THEN "RefreshError" ELSE u.outcome]
                /\ IF given
                   THEN caller_auth' = a2 /\ UNCHANGED self_auth
                   ELSE self_auth' = a2 /\ UNCHANGED caller_auth
    /\ UNCHANGED <<environ, CONF, _auth_plugin, _session, nbuilt, op, returned, since,
                   changed, builtFrom>>

\* the module state after `import chi.context` in an environment of E
InitContext(E) ==
    /\ environ \in E
    /\ LET r == ResetResult(ImportConf, environ) IN
       /\ CONF = r.conf
       /\ _auth_plugin = r.plugin
    /\ _session = 0
    /\ nbuilt = 0
    /\ op = NoCall
    /\ returned = 0
    /\ since = "none"
    /\ changed = FALSE
    /\ builtFrom = {}

\* the state after `import chi.context` in an environment of E, no session
\* object in use
InitIn(E) ==
    /\ InitContext(E)
    /\ self_auth = NoAuth
    /\ caller_auth = NoAuth
    /\ request_op = NoRequest

Init == InitIn(ScenarioEnvs)

\* any call, with keys of K and plugin names of P
NextWith(K, P) ==
    \/ \E key \in K : \E value \in (IF key = _AUTH_TYPE_OPT.dest THEN P ELSE Values) :
          set(key, value)
    \/ \E key \in K : get(key)
    \/ session
    \/ reset

Next == NextWith(Keys, PluginInputs)

Spec == Init /\ [][Next]_vars

\* reset in every environment with at most MaxEnvVars variables set, after any
\* sets of a root option, a plugin option and the plugin
EnvKeys == { <<"auth", "_", "type">>, <<"region", "_", "name">>, <<"username">> }

InitEnv == InitIn(EnvironmentsUpTo(MaxEnvVars))

NextEnv ==
    \/ \E key \in EnvKeys :
          \E value \in (IF key = _AUTH_TYPE_OPT.dest THEN PluginInputs ELSE Values) :
             set(key, value)
    \/ \E key \in EnvKeys : get(key)
    \/ reset

SpecEnv == InitEnv /\ [][NextEnv]_vars

----------------------------------------------------------------------------
(* The session cache.                                                      *)

\* C1: a session() call made when neither set() nor reset() has been called
\* since session() last returned an object returns that same object without
\* running the build; the build runs only when the cache is empty.
C1_SessionIsCached ==
    /\ (op.name = "session" /\ op.was = "quiet")
          => (op.raised = "" /\ op.obj = op.prev /\ ~op.built)
    /\ (op.name = "session" /\ op.built) => op.cached = 0

C1_Witness ==
    op.name = "session" /\ op.was = "quiet" /\ op.obj = op.prev /\ op.obj > 0 /\ ~op.built

\* C2 as stated: once session() has returned S and a set of a key other than
\* the extra options has succeeded, the next session() call builds and returns
\* an object other than S.
C2_RebuiltAndReturned ==
    (op.name = "session" /\ op.was = "auth")
        => (op.built /\ op.raised = "" /\ op.obj \notin {0, op.prev})

\* C2 as amended: in that case the next session() call runs the build again,
\* and either raises the build's error or returns an object other than S.
C2_Rebuilt ==
    (op.name = "session" /\ op.was = "auth")
        => (op.built /\ op.cached = 0 /\ (op.raised = "" => op.obj \notin {0, op.prev}))

C2_Witness ==
    op.name = "session" /\ op.was = "auth" /\ op.raised = "" /\ op.prev > 0
        /\ op.obj > op.prev

\* C3: a successful set of an extra option leaves the cached session as it was,
\* get of the key then returns the value set, and a session() call with only
\* such sets since session() last returned S returns S again.
C3_ExtraSetKeepsSession ==
    /\ (op.name = "set" /\ op.raised = "" /\ op.key \in ExtraKeys)
          => (_session = op.cached /\ GetResult(CONF, _auth_plugin, op.key) = op.value)
    /\ (op.name = "session" /\ op.was = "extra")
          => (op.raised = "" /\ op.obj = op.prev /\ ~op.built)

C3_Witness ==
    op.name = "session" /\ op.was = "extra" /\ op.obj = op.prev /\ op.obj > 0
        /\ GetResult(CONF, _auth_plugin, <<"image">>) = <<"alice">>

\* C4: whenever a session is cached, the plugin, the auth-section pointer and
\* every option value other than the extra options' are those it was built from.
C4_CacheNeverStale ==
    _session # 0 => builtFrom = {AuthConfig(CONF, _auth_plugin)}

C4_Witness ==
    _session = 2 /\ op.name = "set" /\ op.raised = "" /\ op.cached = 2

\* C5 as stated: a session() call made while every option value and the
\* plugin are what they were when session() last returned an object returns
\* that object (checked for the runs in which nothing has changed in between).
C5_OnePerConfiguration ==
    (op.name = "session" /\ op.raised = "" /\ op.prev # 0 /\ ~op.changed)
        => (op.obj = op.prev /\ ~op.built)

\* C5 as amended: a session() call with no reset and no successful set of a
\* key other than the extra options since session() last returned an object
\* returns that object, and session() builds a further object only after such
\* a set or a reset.
C5_OnePerInvalidation ==
    (op.name = "session" /\ op.prev # 0)
        => /\ op.was \in {"quiet", "extra", "kept"} => (op.obj = op.prev /\ ~op.built)
           /\ op.built => op.was \in {"auth", "reset"}

C5_Witness ==
    op.name = "session" /\ op.was = "kept" /\ op.obj = op.prev /\ op.obj > 0

----------------------------------------------------------------------------
(* The accessors.                                                          *)

\* what get(key) returns in the current state
Got(key) == GetResult(CONF, _auth_plugin, key)

AcceptedKeys ==
    { <<"auth", "_", "type">> } \cup RootKeys
        \cup { <<"auth", "_", "url">>, <<"auth", "-", "url">>, <<"token">>, <<"username">> }

\* C7: set with a key it does not accept raises NoSuchOptError, and so does
\* get with a key that is neither a root option nor an option of the active
\* plugin's section (the plugin's own options and auth_type).
C7_UnknownKeyRaises ==
    /\ (op.name = "set" /\ op.key \notin AcceptedKeys) => op.raised = "NoSuchOptError"
    /\ (op.name = "get"
           /\ op.key \notin RootKeys \cup PluginKeys(_auth_plugin) \cup {<<"auth", "_", "type">>})
          => op.raised = "NoSuchOptError"

C7_Witness ==
    op.name = "set" /\ op.key = <<"default", "_", "domain", "_", "id">>
        /\ op.raised = "NoSuchOptError"

\* the value held in plugin p's section for key k
Held(p, k) == conf_get(CONF, <<"chi", ".", "auth", ".">> \o p, k)

----------------------------------------------------------------------------
(* reset().                                                                *)

\* OS_<O> for a root option key o
RootEnvVar(o) ==
    CASE o = <<"cafile">> -> <<"OS", "_", "CAFILE">>
      [] o = <<"region", "_", "name">> -> <<"OS", "_", "REGION", "_", "NAME">>
      [] o = <<"image">> -> <<"OS", "_", "IMAGE">>
      [] o = <<"key", "_", "name">> -> <<"OS", "_", "KEY", "_", "NAME">>
      [] o = <<"keypair", "_", "private", "_", "key">> ->
           <<"OS", "_", "KEYPAIR", "_", "PRIVATE", "_", "KEY">>
      [] o = <<"keypair", "_", "public", "_", "key">> ->
           <<"OS", "_", "KEYPAIR", "_", "PUBLIC", "_", "KEY">>

\* C9 as stated: right after reset(), get(o) of a root option o is the value
\* of OS_<O> if the variable is set, None (the built-in default) otherwise.
C9_ResetReadsEnv ==
    op.name = "reset" =>
        \A o \in RootKeys :
            Got(o) = IF RootEnvVar(o) \in DOMAIN environ THEN environ[RootEnvVar(o)]
                     ELSE None

\* C9 as amended: ... the value of OS_<O> if the variable is set and not
\* empty, None otherwise.
C9_ResetReadsNonEmptyEnv ==
    op.name = "reset" =>
        \A o \in RootKeys :
            Got(o) = IF RootEnvVar(o) \in DOMAIN environ /\ environ[RootEnvVar(o)] # << >>
                     THEN environ[RootEnvVar(o)]
                     ELSE None

C9_Witness ==
    /\ op.name = "reset" /\ op.overridden
    /\ <<"OS", "_", "REGION", "_", "NAME">> \in DOMAIN environ
    /\ Got(<<"region", "_", "name">>) = <<"RegionOne">>

\* the plugin reset() is to select
ExpectedPlugin ==
    IF OS_AUTH_TYPE \in DOMAIN environ THEN environ[OS_AUTH_TYPE]
    ELSE IF OS_AUTH_METHOD \in DOMAIN environ THEN environ[OS_AUTH_METHOD]
    ELSE <<"v3", "token">>

----------------------------------------------------------------------------
(* The calls under a plugin that is not a v3 plugin.                       *)

\* 'password' is known to the loader but is not among _auth_plugins(): its
\* options are registered in its section by the session() build only
LoaderKeys ==
    { <<"auth", "_", "type">>, <<"region", "_", "name">>, <<"auth", "_", "url">>,
      <<"default", "_", "domain", "_", "id">> }

LoaderPlugins == { <<"v3", "token">>, <<"password">> }

LoaderEnvs ==
    { EmptyMap,
      OS_AUTH_TYPE :> <<"password">>,
      (OS_AUTH_TYPE :> <<"password">>)
        @@ (EnvName(<<"auth", "-", "url">>) :> <<"https://kvm">>) }

InitLoader == InitIn(LoaderEnvs)

NextLoader == NextWith(LoaderKeys, LoaderPlugins)

SpecLoader == InitLoader /\ [][NextLoader]_vars

\* the store and the plugin module initialization leaves in the environment
Imported == ResetResult(ImportConf, environ)

\* the keys get is tried with: those of the root options, of the plugins'
\* options (the loader's 'password' included) and the reserved key
AllKeys ==
    RootKeys \cup PluginKeys(<<"v3", "token">>) \cup PluginKeys(<<"v3", "password">>)
        \cup { <<"auth", "_", "type">>, <<"default", "_", "domain", "_", "id">> }

\* C11 as stated: right after reset() the cache is empty and the active
\* plugin and the outcome of get(k) for every key k are those of the state
\* right after module initialization in the same environment.
C11_ResetReinitializes ==
    op.name = "reset" =>
        /\ _session = 0
        /\ _auth_plugin = Imported.plugin
        /\ \A k \in AllKeys : Got(k) = GetResult(Imported.conf, Imported.plugin, k)

\* C11 as amended: right after reset() the cache is empty, no override is left
\* but the selector's two, the active plugin is that of module initialization,
\* every get that returned a value then returns that value, a get that raised
\* NoSuchOptError then raises it again or returns None (the option has been
\* registered since), and a further reset() changes nothing.
C11_ResetRestoresValues ==
    op.name = "reset" =>
        /\ _session = 0
        /\ _auth_plugin = Imported.plugin
        /\ DOMAIN CONF.override =
              { <<CONF_GROUP, <<"auth", "_", "section">> >>,
                << <<"chi", ".", "auth", ".">> \o _auth_plugin, <<"auth", "_", "type">> >> }
        /\ \A k \in AllKeys :
              LET first == GetResult(Imported.conf, Imported.plugin, k) IN
              IF first # NoSuchOptError THEN Got(k) = first
              ELSE Got(k) \in {NoSuchOptError, None}
        /\ ResetResult(CONF, environ) = [conf |-> CONF, plugin |-> _auth_plugin]

C11_Witness ==
    /\ op.name = "reset" /\ op.overridden /\ op.plugin = <<"v3", "token">>
    /\ _auth_plugin = <<"password">>
    /\ Got(<<"region", "_", "name">>) = None
    /\ Got(<<"default", "_", "domain", "_", "id">>) = None

----------------------------------------------------------------------------
(* The selector.                                                           *)

\* the plugin names the loader knows; those of _auth_plugins() are among them
LoaderNames == { <<"v3", "token">>, <<"v3", "password">>, <<"password">> }

\* C12 as stated: in every reachable state the active plugin is a name the
\* plugin registry knows.
C12_ActiveIsDiscoverable == _auth_plugin \in LoaderNames

\* C12 as amended: the active plugin is the name last selected, whether the
\* registry knows it or not: the one the environment selects after module
\* initialization and after reset(), x after set('auth_type', x), and what
\* it was after any other call.
C12_ActiveIsLastSelected ==
    [][ /\ op.name = "import" => _auth_plugin = ExpectedPlugin
        /\ _auth_plugin' =
              IF op'.name = "set" /\ op'.key = <<"auth", "_", "type">> THEN op'.value
              ELSE IF op'.name = "reset" THEN ExpectedPlugin
              ELSE _auth_plugin ]_vars

C12_Witness ==
    /\ op.name = "set" /\ op.key = <<"auth", "_", "type">> /\ op.value = <<"bogus">>
    /\ _auth_plugin = <<"bogus">>
    /\ ExpectedPlugin = <<"v3", "password">>

----------------------------------------------------------------------------
(* set of a plugin option.                                                 *)

V3Names == { <<"v3", "token">>, <<"v3", "password">> }

\* the dest of the option of v3 plugin p whose name or dest is key, None when
\* p has no such option
DestOf(p, key) ==
    CASE key \in { <<"auth", "_", "url">>, <<"auth", "-", "url">> } -> <<"auth", "_", "url">>
      [] key = <<"token">> /\ p = <<"v3", "token">> -> <<"token">>
      [] key = <<"username">> /\ p = <<"v3", "password">> -> <<"username">>
      [] OTHER -> None

\* the section of plugin p
SectionOf(p) == <<"chi", ".", "auth", ".">> \o p

----------------------------------------------------------------------------
(* The request path.                                                       *)

\* the tokens an OidcAccessToken object starts with
Tokens == { <<"stale">>, << >> }

AuthObjects ==
    { AuthObject(TRUE, t, s) : t \in Tokens, s \in {None, <<"authenticated">>} }
        \cup { AuthObject(FALSE, None, s) : s \in {None, <<"authenticated">>} }

\* a session with any auth object or none, a caller with any auth object
InitHook ==
    /\ InitContext({EmptyMap})
    /\ self_auth \in AuthObjects \cup {NoAuth}
    /\ caller_auth \in AuthObjects
    /\ request_op = NoRequest

NextHook ==
    \E given \in BOOLEAN, in_hub \in is_jupyterhub_env, r \in refresh_access_token,
       u \in SuperRequest :
        request(given, in_hub, r, u)

SpecHook == InitHook /\ [][NextHook]_vars

\* the auth object the last request() used, as it is now
UsedAuth == IF request_op.given THEN caller_auth ELSE self_auth

\* C14: request() attempts a refresh exactly when the auth object it uses is
\* an OidcAccessToken, had no auth state and the process runs in the notebook
\* environment; the object's token afterwards is the token the attempt returned
\* when it returned a non-empty one, and the token it had in every other case.
C14_RefreshIffAllThree ==
    request_op.name = "request" =>
        IF request_op.before = NoAuth THEN ~request_op.attempted /\ UsedAuth = NoAuth
        ELSE /\ request_op.attempted <=>
                   (request_op.before.oidc /\ request_op.before.auth_state = None
                       /\ request_op.in_hub)
             /\ UsedAuth.access_token =
                   IF request_op.attempted /\ request_op.refresh = "token"
                   THEN <<"fresh">>
                   ELSE request_op.before.access_token

C14_Witness ==
    /\ request_op.name = "request" /\ request_op.given /\ request_op.attempted
    /\ request_op.refresh = "token"
    /\ request_op.before.access_token = <<"stale">>
    /\ caller_auth.access_token = <<"fresh">>
    /\ self_auth # NoAuth /\ ~self_auth.oidc

\* C15: when the refresh attempt raises, the error is logged, the auth object
\* keeps its token, the underlying request is issued once and its outcome is
\* the outcome of request().
C15_RefreshFailureSuppressed ==
    (request_op.name = "request" /\ request_op.attempted /\ request_op.refresh = "raised")
        => /\ request_op.logged
           /\ UsedAuth.access_token = request_op.before.access_token
           /\ request_op.issued = 1
           /\ request_op.outcome = request_op.underlying
           /\ request_op.outcome \in {"response", "error"}

C15_Witness ==
    /\ request_op.name = "request" /\ request_op.attempted /\ request_op.refresh = "raised"
    /\ request_op.logged /\ request_op.issued = 1 /\ request_op.outcome = "response"
    /\ UsedAuth.access_token = <<"stale">>

----------------------------------------------------------------------------
(* The defaults reset() takes from the environment.                        *)

\* every option reset() gives a default: its section, its dest, and the
\* variables of its name and of its deprecated names, in that order
EnvOptions ==
    { [group |-> <<"chi">>, dest |-> o, vars |-> << RootEnvVar(o) >>] : o \in RootKeys }
  \cup
    { [group |-> SectionOf(<<"v3", "token">>), dest |-> <<"auth", "_", "url">>,
       vars |-> << <<"OS", "_", "AUTH", "_", "URL">> >>],
      [group |-> SectionOf(<<"v3", "token">>), dest |-> <<"token">>,
       vars |-> << <<"OS", "_", "TOKEN">> >>],
      [group |-> SectionOf(<<"v3", "password">>), dest |-> <<"auth", "_", "url">>,
       vars |-> << <<"OS", "_", "AUTH", "_", "URL">> >>],
      [group |-> SectionOf(<<"v3", "password">>), dest |-> <<"username">>,
       vars |-> << <<"OS", "_", "USERNAME">>, <<"OS", "_", "USER", "_", "NAME">> >>] }

\* the indices of the variables of vs that are set and not empty
NonEmptyAt(vs) == { i \in 1..Len(vs) : vs[i] \in DOMAIN environ /\ environ[vs[i]] # << >> }

\* the least element of a non-empty set of naturals
Least(S) == CHOOSE i \in S : \A j \in S : i <= j

\* C16: right after reset() (and after module initialization) the default of
\* every root option and every option of a v3 plugin is the value of the first
\* of its variables that is set and not empty, and the option has no default
\* when there is no such variable; no other option has a default.
C16_DefaultIsFirstNonEmpty ==
    op.name \in {"reset", "import"} =>
        /\ \A o \in EnvOptions :
              IF NonEmptyAt(o.vars) = {}
              THEN /\ <<o.group, o.dest>> \notin DOMAIN CONF.default
                   /\ conf_get(CONF, o.group, o.dest) = None
              ELSE /\ <<o.group, o.dest>> \in DOMAIN CONF.default
                   /\ CONF.default[<<o.group, o.dest>>] = environ[o.vars[Least(NonEmptyAt(o.vars))]]
                   /\ conf_get(CONF, o.group, o.dest) = environ[o.vars[Least(NonEmptyAt(o.vars))]]
        /\ DOMAIN CONF.default \subseteq { <<o.group, o.dest>> : o \in EnvOptions }

C16_Witness ==
    /\ op.name = "reset" /\ op.plugin = <<"v3", "password">>
    /\ <<"OS", "_", "USERNAME">> \in DOMAIN environ
    /\ environ[<<"OS", "_", "USERNAME">>] = << >>
    /\ <<"OS", "_", "USER", "_", "NAME">> \in DOMAIN environ
    /\ Held(<<"v3", "password">>, <<"username">>) = <<"dave">>
    /\ Got(<<"region", "_", "name">>) = None

----------------------------------------------------------------------------
(* Selector consistency.                                                   *)

\* C17 as stated: in every reachable state the auth_section of the root
\* section is 'chi.auth.<active plugin>' and the auth_type of the root section
\* is the active plugin.
C17_RootSectionNamesPlugin ==
    /\ conf_get(CONF, <<"chi">>, <<"auth", "_", "section">>) = SectionOf(_auth_plugin)
    /\ conf_get(CONF, <<"chi">>, <<"auth", "_", "type">>) = _auth_plugin

\* C17 as amended: in every reachable state the auth_section of the root
\* section is 'chi.auth.<active plugin>' and the auth_type of the section it
\* names is the active plugin, so the section and the plugin name the loader
\* reads for session() are those get() reads.
C17_SelectorConsistent ==
    /\ conf_get(CONF, <<"chi">>, <<"auth", "_", "section">>) = SectionOf(_auth_plugin)
    /\ conf_get(CONF, SectionOf(_auth_plugin), <<"auth", "_", "type">>) = _auth_plugin
    /\ Got(<<"auth", "_", "type">>) = _auth_plugin

C17_Witness ==
    /\ op.name = "session" /\ op.raised = "BuildError" /\ op.was = "auth"
    /\ _auth_plugin = <<"bogus">>
    /\ conf_get(CONF, <<"chi">>, <<"auth", "_", "section">>) =
          <<"chi", ".", "auth", ".", "bogus">>
    /\ conf_get(CONF, <<"chi">>, <<"auth", "_", "type">>) = None

----------------------------------------------------------------------------
(* Calls that fail.                                                        *)

\* C18: a set that ends in NoSuchOptError leaves the store, the active plugin
\* and the cached session as they were, and a session() call right after it
\* returns the object that was cached, without a build.
C18_FailedSetChangesNothing ==
    [][ /\ (op'.name = "set" /\ op'.raised = "NoSuchOptError") =>
              /\ CONF' = CONF
              /\ _auth_plugin' = _auth_plugin
              /\ _session' = _session
              /\ \A k \in AllKeys :
                    GetResult(CONF', _auth_plugin', k) = GetResult(CONF, _auth_plugin, k)
        /\ (op.name = "set" /\ op.raised = "NoSuchOptError" /\ op.cached # 0
               /\ op'.name = "session") =>
              (op'.raised = "" /\ op'.obj = op.cached /\ ~op'.built) ]_vars

C18_Witness ==
    /\ op.name = "set" /\ op.raised = "NoSuchOptError" /\ op.key = <<"user", "-", "name">>
    /\ op.cached = 1 /\ _session = 1
    /\ _auth_plugin = <<"v3", "password">>
    /\ Held(<<"v3", "password">>, <<"username">>) = <<"alice">>

----------------------------------------------------------------------------
(* Switching the plugin.                                                   *)

\* what get(k) returns after set('auth_type', p); set(k, v);
\* set('auth_type', q); set('auth_type', p), made in the current state
AfterSwitches(p, k, v, q) ==
    LET at == <<"auth", "_", "type">>
        s1 == SetResult(CONF, _auth_plugin, _session, at, p)
        s2 == SetResult(s1.conf, s1.plugin, s1.session, k, v)
        s3 == SetResult(s2.conf, s2.plugin, s2.session, at, q)
        s4 == SetResult(s3.conf, s3.plugin, s3.session, at, p)
    IN  GetResult(s4.conf, s4.plugin, k)

C20_FailedBuildChangesNothing ==
    [][ /\ (op'.name = "session" /\ op'.raised # "") =>
              /\ op'.built /\ op'.cached = 0
              /\ _session' = 0
              /\ _auth_plugin' = _auth_plugin
              /\ \A k \in AllKeys :
                    GetResult(CONF', _auth_plugin', k) = GetResult(CONF, _auth_plugin, k)
        /\ (op.name = "session" /\ op.raised # "" /\ op'.name = "session") =>
              op'.built ]_vars

\* C20 as amended: a session() call whose build fails raises, leaves the cache
\* empty, the active plugin, the overrides and the defaults as they were; the
\* store changes at most by the registration of options in the active plugin's
\* section, so every get that returned a value returns it still and a get
\* that raised NoSuchOptError raises it again or returns None; a session()
\* call right after it runs the build again.
C20_FailedBuildKeepsValues ==
    [][ /\ (op'.name = "session" /\ op'.raised # "") =>
              /\ op'.built /\ op'.cached = 0
              /\ _session' = 0
              /\ _auth_plugin' = _auth_plugin
              /\ CONF'.override = CONF.override
              /\ CONF'.default = CONF.default
              /\ CONF.opts \subseteq CONF'.opts
              /\ \A k \in CONF'.opts \ CONF.opts : k[1] = SectionOf(_auth_plugin)
              /\ \A k \in AllKeys :
                    LET before == GetResult(CONF, _auth_plugin, k) IN
                    IF before # NoSuchOptError
                    THEN GetResult(CONF', _auth_plugin', k) = before
                    ELSE GetResult(CONF', _auth_plugin', k) \in {NoSuchOptError, None}
        /\ (op.name = "session" /\ op.raised # "" /\ op'.name = "session") =>
              op'.built ]_vars

C20_Witness ==
    /\ op.name = "session" /\ op.raised = "BuildError" /\ op.built /\ op.prev # 0
    /\ _session = 0
    /\ _auth_plugin = <<"password">>
    /\ Got(<<"default", "_", "domain", "_", "id">>) = None
    /\ Got(<<"region", "_", "name">>) = <<"alice">>

====
